---- MODULE Spec2Model ----
(***************************************************************************)
(* A state-machine model of the Snap alignment engine of leafer-x-easy-snap *)
(* (packages/lib/src/snap): the Snap class of index.ts with its event       *)
(* handlers, the collision computations of snap-calc.ts, the geometry       *)
(* helpers of utils.ts and the pooled render elements of snap-render.ts.    *)
(*                                                                         *)
(* Coordinates are JavaScript numbers in the source.  The model measures    *)
(* them in ticks of 1/PX pixel, so that quarter-pixel positions, which      *)
(* Math.round treats differently from whole pixels, are representable.      *)
(***************************************************************************)
EXTENDS Integers, Sequences, FiniteSets, TLC

VARIABLES
    config,             \* this.config
    isEnabled,          \* this.isEnabled
    isSnapping,         \* this.isSnapping
    isKeyEvent,         \* this.isKeyEvent
    snapElements,       \* this.snapElements
    snapPoints,         \* this.snapPoints
    snapLines,          \* this.snapLines
    verticalLines,      \* render cache: visible flag of each pooled element
    horizontalLines,
    linePointGroups,
    distanceLabels,
    distanceLines,
    equalSpacingBoxes,
    listeners,          \* how many times the handlers are registered with the host
    list,               \* app.editor.list, the current selection
    pos,                \* position of each movable shape, in ticks
    held,               \* host: the arrow keys that are down
    sky,                \* host: render elements added to app.sky and not destroyed
    scaleX,             \* host: app.zoomLayer.scaleX, the zoom factor
    layerY,             \* host: app.zoomLayer.y, the vertical pan, in ticks
    last                \* what the last delivered event computed (history)

vars == <<config, isEnabled, isSnapping, isKeyEvent, snapElements, snapPoints,
          snapLines, verticalLines, horizontalLines, linePointGroups,
          distanceLabels, distanceLines, equalSpacingBoxes, listeners, list,
          pos, held, sky, scaleX, layerY, last>>

-----------------------------------------------------------------------------
(* Numbers and sequences *)

\* ticks per pixel
PX == 4

Px(n) == n * PX

Abs(n) == IF n < 0 THEN -n ELSE n

MinOf(S) == CHOOSE m \in S : \A n \in S : m <= n

MaxOf(S) == CHOOSE m \in S : \A n \in S : m >= n

Range(s) == { s[i] : i \in 1..Len(s) }

\* Math.round of a number given in ticks, in pixels: floor(v + 1/2)
MathRound(t) == (2 * t + PX) \div (2 * PX)

\* toFixed(v, 0) of a number given in ticks, in pixels
toFixed(t) == MathRound(t)

RECURSIVE Flat(_)
Flat(ss) == IF ss = <<>> THEN <<>> ELSE Head(ss) \o Flat(Tail(ss))

\* Array.prototype.sort with comparator (a, b) => key(a) - key(b), a stable
\* sort; the array is given as the sequence of its [key, val] pairs
RECURSIVE InsertBy(_, _)
InsertBy(e, s) ==
    IF s = <<>> THEN <<e>>
    ELSE IF Head(s).key <= e.key
         THEN <<Head(s)>> \o InsertBy(e, Tail(s))
         ELSE <<e>> \o s

RECURSIVE SortBy(_)
SortBy(s) ==
    IF s = <<>> THEN <<>>
    ELSE InsertBy(s[Len(s)], SortBy(SubSeq(s, 1, Len(s) - 1)))

\* the sequence s sorted by the keys its positions have in keys
Sorted(s, keys) ==
    LET r == SortBy([i \in 1..Len(s) |-> [key |-> keys[i], val |-> s[i]]])
    IN  [i \in 1..Len(r) |-> r[i].val]

-----------------------------------------------------------------------------
(* The scene: the host's tree, its shapes and the editor *)

\* app.tree.children, in order
Children ==
    <<"A", "B", "C", "E", "F", "G", "H", "I", "J", "K", "L", "T", "U", "N", "V">>

\* the shapes the editor can select and move
Movable == {"T", "U"}

\* width and height of each shape, in ticks
Size ==
    [id \in Range(Children) |->
        CASE id \in {"A", "B", "C", "T"} -> [w |-> Px(100), h |-> Px(100)]
          [] id = "E"                    -> [w |-> Px(60) + PX \div 2, h |-> Px(40)]
          [] id \in {"F", "G"}           -> [w |-> Px(60), h |-> Px(40)]
          [] id = "U"                    -> [w |-> Px(2), h |-> Px(2)]
          [] id = "J"                    -> [w |-> Px(20), h |-> Px(420)]
          [] id = "K"                    -> [w |-> Px(20), h |-> Px(200)]
          [] id = "L"                    -> [w |-> Px(1) + PX \div 2, h |-> Px(20)]
          [] OTHER                       -> [w |-> Px(20), h |-> Px(20)]]

\* position of each shape that never moves
StaticPos ==
    [id \in Range(Children) \ Movable |->
        CASE id = "A" -> [x |-> Px(0), y |-> Px(200)]
          [] id = "B" -> [x |-> Px(110), y |-> Px(200)]
          [] id = "C" -> [x |-> Px(220), y |-> Px(200)]
          [] id = "E" -> [x |-> Px(350), y |-> Px(101)]
          [] id = "F" -> [x |-> Px(350), y |-> Px(150)]
          [] id = "G" -> [x |-> Px(350), y |-> Px(310)]
          [] id = "H" -> [x |-> Px(350), y |-> Px(400)]
          [] id = "I" -> [x |-> Px(400), y |-> Px(430)]
          [] id = "J" -> [x |-> Px(352), y |-> Px(50)]
          [] id = "K" -> [x |-> Px(352), y |-> Px(60)]
          [] id = "L" -> [x |-> Px(350) + PX \div 4, y |-> Px(700)]
          [] id = "N" -> [x |-> Px(600), y |-> Px(600)]
          [] id = "V" -> [x |-> Px(2000), y |-> Px(2000)]]

\* where the movable shapes are when the program starts
HomePos ==
    [id \in Movable |->
        IF id = "T" THEN [x |-> Px(330), y |-> Px(200)]
        ELSE [x |-> Px(350), y |-> Px(250)]]

\* the isSnap attribute of a shape (UI.addAttr('isSnap', true))
IsSnapAttr(id) == id # "N"

\* element.isLeafer
IsLeafer(id) == id = "tree"

\* element.tag
Tag(id) == IF id = "sim" THEN "SimulateElement" ELSE "Rect"

\* the zoom factors of the host's zoom layer
Zooms == {1, 2}

\* the selections the editor takes
Selections == { <<"U">>, <<"T", "U">> }

\* the zoom factor and the vertical pan, in ticks, the host shows the tree
\* with: as it is, or zoomed in and panned
Views == { <<z, IF z = 1 THEN 0 ELSE Px(200)>> : z \in Zooms }

\* app.zoomLayer without its scale, in ticks; scaleY is scaleX
ZoomLayer == [x |-> 0, y |-> layerY, width |-> Px(1000), height |-> Px(1000)]

\* the box of a shape in the tree's frame for positions p; the editor's
\* simulate element ("sim") spans the selected shapes
ShapeBox(id, p) ==
    IF id \in Movable
    THEN [x |-> p[id].x, y |-> p[id].y, w |-> Size[id].w, h |-> Size[id].h]
    ELSE [x |-> StaticPos[id].x, y |-> StaticPos[id].y,
          w |-> Size[id].w, h |-> Size[id].h]

BoxOf(id, p, sel) ==
    IF id # "sim" THEN ShapeBox(id, p)
    ELSE LET bs == { ShapeBox(sel[i], p) : i \in 1..Len(sel) }
             x1 == MinOf({ b.x : b \in bs })
             y1 == MinOf({ b.y : b \in bs })
             x2 == MaxOf({ b.x + b.w : b \in bs })
             y2 == MaxOf({ b.y + b.h : b \in bs })
         IN  [x |-> x1, y |-> y1, w |-> x2 - x1, h |-> y2 - y1]

\* element.getLayoutPoints('box', tree): the four corners of the box
getLayoutPoints(b) ==
    << [x |-> b.x, y |-> b.y], [x |-> b.x + b.w, y |-> b.y],
       [x |-> b.x + b.w, y |-> b.y + b.h], [x |-> b.x, y |-> b.y + b.h] >>

\* editor.element: the selected shape, or the simulate element of a multi-selection
Target(sel) == IF Len(sel) > 1 THEN "sim" ELSE sel[1]

\* editor.multiple
Multiple(sel) == Len(sel) > 1

-----------------------------------------------------------------------------
(* utils.ts and snap-calc.ts: boundary points, snap points, snap lines *)

\* the keys of BoundPoints, in the order the object literal lists them
PointTypes == <<"tl", "tr", "bl", "br", "ml", "mr", "mt", "mb">>

\* bound points whose corners and centres are each rounded to whole pixels
roundedBoundPoints(b) ==
    LET minX == Px(toFixed(b.x))
        maxX == Px(toFixed(b.x + b.w))
        minY == Px(toFixed(b.y))
        maxY == Px(toFixed(b.y + b.h))
        centerX == Px(toFixed((minX + maxX) \div 2))
        centerY == Px(toFixed((minY + maxY) \div 2))
    IN  [tl |-> [x |-> minX, y |-> minY],
         tr |-> [x |-> maxX, y |-> minY],
         bl |-> [x |-> minX, y |-> maxY],
         br |-> [x |-> maxX, y |-> maxY],
         ml |-> [x |-> minX, y |-> centerY],
         mr |-> [x |-> maxX, y |-> centerY],
         mt |-> [x |-> centerX, y |-> minY],
         mb |-> [x |-> centerX, y |-> maxY]]

getElementBoundPoints(b) ==
    LET points == getLayoutPoints(b)
        xs   == { points[i].x : i \in 1..Len(points) }
        ys   == { points[i].y : i \in 1..Len(points) }
        minX == MinOf(xs)
        maxX == MaxOf(xs)
        minY == MinOf(ys)
        maxY == MaxOf(ys)
        centerX == (minX + maxX) \div 2
        centerY == (minY + maxY) \div 2
    IN  [tl |-> [x |-> minX, y |-> minY],
         tr |-> [x |-> maxX, y |-> minY],
         bl |-> [x |-> minX, y |-> maxY],
         br |-> [x |-> maxX, y |-> maxY],
         ml |-> [x |-> minX, y |-> centerY],
         mr |-> [x |-> maxX, y |-> centerY],
         mt |-> [x |-> centerX, y |-> minY],
         mb |-> [x |-> centerX, y |-> maxY]]

\* Object.values(targetPoints)
BoundPointValues(bp) == [i \in 1..Len(PointTypes) |-> bp[PointTypes[i]]]

createSnapPoints(id, b) ==
    LET boundPoints == getElementBoundPoints(b)
    IN  [i \in 1..Len(PointTypes) |->
            [x |-> boundPoints[PointTypes[i]].x,
             y |-> boundPoints[PointTypes[i]].y,
             type |-> PointTypes[i],
             element |-> id]]

\* the keys of a Map filled with the coordinates cs, in insertion order: each
\* coordinate not in seen, at its first position in cs
MapKeys(cs, seen) ==
    LET entries == [i \in 1..Len(cs) |-> [i |-> i, key |-> cs[i]]]
        first == SelectSeq(entries, LAMBDA e :
                     /\ e.key \notin seen
                     /\ \A j \in 1..(e.i - 1) : cs[j] # e.key)
    IN  [k \in 1..Len(first) |-> first[k].key]

PointX(pts) == [i \in 1..Len(pts) |-> pts[i].x]

PointY(pts) == [i \in 1..Len(pts) |-> pts[i].y]

\* a line only for two points or more
isPlural(points) == Len(points) >= 2

\* points.length >= 1, the condition a group of points becomes a line on
isLine(points) == Len(points) >= 1

createSnapLines(pts) ==
    LET xKeys == MapKeys(PointX(pts), {})
        yKeys == MapKeys(PointY(pts), {})
        onX(v) == SelectSeq(pts, LAMBDA p : p.x = v)
        onY(v) == SelectSeq(pts, LAMBDA p : p.y = v)
        vertical ==
            [i \in 1..Len(xKeys) |->
                [type |-> "vertical", value |-> xKeys[i],
                 points |-> Sorted(onX(xKeys[i]), PointY(onX(xKeys[i])))]]
        horizontal ==
            [i \in 1..Len(yKeys) |->
                [type |-> "horizontal", value |-> yKeys[i],
                 points |-> Sorted(onY(yKeys[i]), PointX(onY(yKeys[i])))]]
    IN  SelectSeq(vertical, LAMBDA l : isLine(l.points))
            \o SelectSeq(horizontal, LAMBDA l : isLine(l.points))

-----------------------------------------------------------------------------
(* snap-calc.ts: collision detection and best-match selection *)

\* the value the source calls null
Null == [isNull |-> TRUE]

\* the initial minDistance of checkLineCollision, the source's Infinity
Infinity == -1

\* a comparison that also accepts an equal distance
AtMost(d, m) == m = Infinity \/ d <= m

LessThan(d, m) == m = Infinity \/ d < m

Coord(p, axis) == IF axis = "x" THEN p.x ELSE p.y

\* distance in ticks, snapSize in pixels
isInSnapRange(distance, snapSize) == MathRound(distance) <= snapSize

\* the for loop of checkLineCollision after its first n target points
RECURSIVE CollisionLoop(_, _, _, _, _)
CollisionLoop(line, tps, n, axis, snapSize) ==
    IF n = 0
    THEN [hasCollision |-> FALSE, minDistance |-> Infinity, offset |-> 0,
          targetCollisionPoints |-> <<>>]
    ELSE LET acc == CollisionLoop(line, tps, n - 1, axis, snapSize)
             targetPoint == tps[n]
             offset_  == Coord(targetPoint, axis) - line.value
             distance == Abs(offset_)
             closer   == LessThan(distance, acc.minDistance)
         IN  IF isInSnapRange(distance, snapSize)
             THEN [hasCollision |-> TRUE,
                   minDistance |-> IF closer THEN distance ELSE acc.minDistance,
                   offset |-> IF closer THEN offset_ ELSE acc.offset,
                   targetCollisionPoints |->
                       Append(acc.targetCollisionPoints, targetPoint)]
             ELSE acc

\* the points of a line, one per distinct "x,y" key, each the first with its key
RECURSIVE UniquePoints(_, _)
UniquePoints(pts, seen) ==
    IF pts = <<>> THEN <<>>
    ELSE LET key == <<Head(pts).x, Head(pts).y>>
         IN  IF key \in seen THEN UniquePoints(Tail(pts), seen)
             ELSE <<Head(pts)>> \o UniquePoints(Tail(pts), seen \cup {key})

checkLineCollision(line, targetPoints, axis, snapSize) ==
    LET acc == CollisionLoop(line, targetPoints, Len(targetPoints), axis, snapSize)
    IN  IF ~acc.hasCollision THEN Null
        ELSE [line |-> line,
              collisionPoints |-> UniquePoints(line.points, {}),
              targetPoints |-> acc.targetCollisionPoints,
              offset |-> acc.offset,
              distance |-> acc.minDistance]

ResultDistance(results) == [i \in 1..Len(results) |-> results[i].distance]

\* results.sort((a, b) => a.distance - b.distance), which reorders its argument
SortedResults(results) == Sorted(results, ResultDistance(results))

\* the last result of the sorted list instead of the first
lastOfSorted(results) ==
    IF Len(results) = 0 THEN Null ELSE SortedResults(results)[Len(results)]

selectBestLineCollision(results) ==
    IF Len(results) = 0 THEN Null ELSE SortedResults(results)[1]

CollisionsOn(lines, targetSnapPoints, axis, snapSize) ==
    LET rs == [i \in 1..Len(lines) |->
                  checkLineCollision(lines[i], targetSnapPoints, axis, snapSize)]
    IN  SelectSeq(rs, LAMBDA r : r # Null)

calculateSnap(targetPoints, lines, snapSize) ==
    LET targetSnapPoints == BoundPointValues(targetPoints)
    IN  [x |-> CollisionsOn(SelectSeq(lines, LAMBDA l : l.type = "vertical"),
                            targetSnapPoints, "x", snapSize),
         y |-> CollisionsOn(SelectSeq(lines, LAMBDA l : l.type = "horizontal"),
                            targetSnapPoints, "y", snapSize)]

filterMidPoints(axis, points) ==
    SelectSeq(points, LAMBDA v :
        IF axis = "x" THEN v.type \notin {"ml", "mr"}
        ELSE IF axis = "y" THEN v.type \notin {"mt", "mb"}
        ELSE TRUE)

-----------------------------------------------------------------------------
(* utils.ts: equal spacing *)

\* the tolerance of calculateEqualSpacing, in pixels
tolerance == 1

\* a clustering step that joins the cluster created last among those in reach
joinLatest(groups, sp) ==
    LET near == { k \in 1..Len(groups) :
                    Abs(sp.spacing - groups[k].spacing) <= tolerance }
        position == [start |-> sp.start, end |-> sp.end]
    IN  IF near = {}
        THEN Append(groups, [spacing |-> sp.spacing, positions |-> <<position>>])
        ELSE [groups EXCEPT ![MaxOf(near)].positions = Append(@, position)]

\* the clustering loop of findEqualSpacing: spacingGroups is the Map, as the
\* sequence of its entries in insertion order
RECURSIVE JoinGroup(_, _)
JoinGroup(groups, sp) ==
    IF groups = <<>>
    THEN << [spacing |-> sp.spacing,
             positions |-> << [start |-> sp.start, end |-> sp.end] >>] >>
    ELSE IF Abs(sp.spacing - Head(groups).spacing) <= tolerance
         THEN << [Head(groups) EXCEPT !.positions =
                     Append(@, [start |-> sp.start, end |-> sp.end])] >>
                \o Tail(groups)
         ELSE << Head(groups) >> \o JoinGroup(Tail(groups), sp)

RECURSIVE SpacingGroups(_, _)
SpacingGroups(spacings, groups) ==
    IF spacings = <<>> THEN groups
    ELSE SpacingGroups(Tail(spacings), JoinGroup(groups, Head(spacings)))

\* a pattern check that wants gaps on both sides of the target
bothSides(positions, targetIdx) ==
    /\ \E i \in 1..Len(positions) : positions[i].end <= targetIdx
    /\ \E i \in 1..Len(positions) : positions[i].start >= targetIdx

checkSpacingPattern(positions, targetIdx) ==
    LET targetInvolved ==
            SelectSeq(positions, LAMBDA q : q.start = targetIdx \/ q.end = targetIdx)
        leftPositions  == SelectSeq(positions, LAMBDA q : q.end <= targetIdx)
        rightPositions == SelectSeq(positions, LAMBDA q : q.start >= targetIdx)
    IN  IF Len(targetInvolved) = 0 THEN FALSE
        ELSE IF Len(leftPositions) > 0 /\ Len(rightPositions) > 0 THEN TRUE
        ELSE IF Len(leftPositions) >= 2 \/ Len(rightPositions) >= 2 THEN TRUE
        ELSE FALSE

\* an index that is the first position whatever e is
firstIndex(s, e) == 1

\* the position of e in s (1-based), 0 when it is not there
IndexOf(s, e) ==
    IF e \in Range(s) THEN MinOf({ i \in 1..Len(s) : s[i] = e }) ELSE 0

\* getStart and getEnd of findEqualSpacing
getStart(axis, b) == IF axis = "x" THEN b.tl.x ELSE b.tl.y

getEnd(axis, b) == IF axis = "x" THEN b.br.x ELSE b.bl.y

\* filterFn of findEqualSpacing: b overlaps the target's tBound on the other axis
filterFn(axis, b, tBound) ==
    LET isX == axis = "x"
        b1 == IF isX THEN b.tl.y ELSE b.tl.x
        b2 == IF isX THEN b.bl.y ELSE b.br.x
        t1 == IF isX THEN tBound.tl.y ELSE tBound.tl.x
        t2 == IF isX THEN tBound.bl.y ELSE tBound.br.x
    IN  ~(b2 <= t1 \/ b1 >= t2)

\* shapes with the bound points getElementBoundPoints gives for each of them
WithBounds(ids, p, sel) ==
    [i \in 1..Len(ids) |->
        [id |-> ids[i], b |-> getElementBoundPoints(BoxOf(ids[i], p, sel))]]

IdsOf(items) == [i \in 1..Len(items) |-> items[i].id]

SortedByStart(axis, items) ==
    Sorted(items, [i \in 1..Len(items) |-> getStart(axis, items[i].b)])

\* the group of findEqualSpacing: the shapes overlapping the target on the
\* other axis, the target among them, sorted by leading edge
SpacingGroup(axis, items, tBound) ==
    SortedByStart(axis, SelectSeq(items, LAMBDA e : filterFn(axis, e.b, tBound)))

\* the spacings of findEqualSpacing: the positive rounded gaps, in pixels
GroupSpacings(axis, group) ==
    SelectSeq([i \in 1..(Len(group) - 1) |->
                  [start |-> i, end |-> i + 1,
                   spacing |-> toFixed(getStart(axis, group[i + 1].b)
                                         - getEnd(axis, group[i].b))]],
              LAMBDA sp : sp.spacing > 0)

\* one EqualSpacingResult; box in ticks, label in half ticks
SpacingResult(axis, prev, next, spacing) ==
    LET isX == axis = "x"
        crossStart == IF isX THEN MaxOf({prev.b.tl.y, next.b.tl.y})
                      ELSE MaxOf({prev.b.tl.x, next.b.tl.x})
        crossEnd   == IF isX THEN MinOf({prev.b.bl.y, next.b.bl.y})
                      ELSE MinOf({prev.b.br.x, next.b.br.x})
    IN  [axis |-> axis, prevElement |-> prev.id, nextElement |-> next.id,
         prevSpacing |-> spacing, nextSpacing |-> spacing, equalSpacing |-> spacing,
         box |-> IF isX
                 THEN [x |-> prev.b.br.x, y |-> crossStart,
                       width |-> Px(spacing), height |-> crossEnd - crossStart]
                 ELSE [x |-> crossStart, y |-> prev.b.bl.y,
                       width |-> crossEnd - crossStart, height |-> Px(spacing)],
         label |-> IF isX
                   THEN [x |-> 2 * prev.b.br.x + Px(spacing),
                         y |-> 2 * crossStart + (crossEnd - crossStart)]
                   ELSE [x |-> 2 * crossStart + (crossEnd - crossStart),
                         y |-> 2 * prev.b.bl.y + Px(spacing)]]

\* the results findEqualSpacing pushes for one entry g of spacingGroups
GroupResults(axis, group, g, targetIdx) ==
    IF Len(g.positions) < 2 THEN <<>>
    ELSE IF ~(\E i \in 1..Len(g.positions) :
                g.positions[i].start = targetIdx \/ g.positions[i].end = targetIdx)
    THEN <<>>
    ELSE IF ~checkSpacingPattern(g.positions, targetIdx) THEN <<>>
    ELSE [i \in 1..Len(g.positions) |->
             SpacingResult(axis, group[g.positions[i].start],
                           group[g.positions[i].end], g.spacing)]

\* the analysis loop of findEqualSpacing over the entries of spacingGroups
AnalyseGroups(axis, group, groups, targetIdx) ==
    IF targetIdx = 0 THEN <<>>
    ELSE Flat([i \in 1..Len(groups) |->
                  GroupResults(axis, group, groups[i], targetIdx)])

\* findEqualSpacing from its sorted group on
AnalyseGroup(axis, target, group) ==
    AnalyseGroups(axis, group, SpacingGroups(GroupSpacings(axis, group), <<>>),
                  IndexOf(IdsOf(group), target))

findEqualSpacing(axis, target, items, tBound) ==
    AnalyseGroup(axis, target, SpacingGroup(axis, items, tBound))

\* the two calls of findEqualSpacing
BothAxes(target, items, tBound) ==
    findEqualSpacing("x", target, items, tBound)
        \o findEqualSpacing("y", target, items, tBound)

calculateEqualSpacing(target, els, p, sel) ==
    IF Len(els) = 0 THEN <<>>
    ELSE BothAxes(target, WithBounds(Append(els, target), p, sel),
                  getElementBoundPoints(BoxOf(target, p, sel)))

-----------------------------------------------------------------------------
(* utils.ts: distance labels *)

\* get layerScale(): app.zoomLayer.scaleX || 1
layerScale == IF scaleX # 0 THEN scaleX ELSE 1

getElementEdgeMidpoints(b) ==
    LET boundPoints == getElementBoundPoints(b)
    IN  [left |-> boundPoints.ml, right |-> boundPoints.mr,
         top |-> boundPoints.mt, bottom |-> boundPoints.mb]

\* start, end in ticks; mid and position in half ticks; distance in pixels
createDistanceLabelWithLineByEdge(snapPoint, direction, edgeMidpoints) ==
    LET start == edgeMidpoints[direction]
        horiz == direction \in {"left", "right"}
        end   == IF horiz THEN [x |-> snapPoint.x, y |-> start.y]
                 ELSE [x |-> start.x, y |-> snapPoint.y]
        mid   == [x |-> start.x + end.x, y |-> start.y + end.y]
        offset == (2 * Px(20)) \div layerScale
        distance == IF horiz THEN Abs(start.x - end.x) ELSE Abs(start.y - end.y)
    IN  [snapPoint |-> snapPoint,
         position |-> IF horiz THEN [x |-> mid.x, y |-> mid.y + offset]
                      ELSE [x |-> mid.x + offset, y |-> mid.y],
         start |-> start, end |-> end, mid |-> mid,
         distance |-> toFixed(distance),
         direction |-> direction,
         text |-> toFixed(distance)]

\* the search loop of processAxisDistanceLabels after its first n points
RECURSIVE NearestLoop(_, _, _, _, _)
NearestLoop(pts, n, isXAxis, primaryMid, secondaryMid) ==
    IF n = 0
    THEN [nearestPrimary |-> Null, minPrimaryDist |-> Infinity,
          nearestSecondary |-> Null, minSecondaryDist |-> Infinity]
    ELSE LET acc == NearestLoop(pts, n - 1, isXAxis, primaryMid, secondaryMid)
             pt  == pts[n]
             coord          == IF isXAxis THEN pt.y ELSE pt.x
             primaryCoord   == IF isXAxis THEN primaryMid.y ELSE primaryMid.x
             secondaryCoord == IF isXAxis THEN secondaryMid.y ELSE secondaryMid.x
             primaryDist    == Abs(coord - primaryCoord)
             secondaryDist  == Abs(coord - secondaryCoord)
             hitP == coord < primaryCoord /\ LessThan(primaryDist, acc.minPrimaryDist)
             hitS == coord > secondaryCoord
                     /\ LessThan(secondaryDist, acc.minSecondaryDist)
         IN  [nearestPrimary   |-> IF hitP THEN pt ELSE acc.nearestPrimary,
              minPrimaryDist   |-> IF hitP THEN primaryDist ELSE acc.minPrimaryDist,
              nearestSecondary |-> IF hitS THEN pt ELSE acc.nearestSecondary,
              minSecondaryDist |-> IF hitS THEN secondaryDist
                                   ELSE acc.minSecondaryDist]

\* every label there is, whatever the distances
bothLabels(primaryLabel, secondaryLabel) ==
    (IF primaryLabel # Null THEN <<primaryLabel>> ELSE <<>>)
        \o (IF secondaryLabel # Null THEN <<secondaryLabel>> ELSE <<>>)

\* the choice of labels that ends processAxisDistanceLabels
chooseLabels(primaryLabel, secondaryLabel) ==
    IF primaryLabel # Null /\ secondaryLabel # Null
       /\ primaryLabel.distance = secondaryLabel.distance
    THEN <<primaryLabel, secondaryLabel>>
    ELSE IF primaryLabel # Null
            /\ (secondaryLabel = Null
                \/ primaryLabel.distance < secondaryLabel.distance)
    THEN <<primaryLabel>>
    ELSE IF secondaryLabel # Null THEN <<secondaryLabel>>
    ELSE <<>>

processAxisDistanceLabels(collisionResults, targetEdgeMidpoints, axis) ==
    IF Len(collisionResults) = 0 THEN <<>>
    ELSE
    LET allPoints == Flat([i \in 1..Len(collisionResults) |->
                        filterMidPoints(axis, collisionResults[i].collisionPoints)])
        isXAxis == axis = "x"
        primaryMid   == IF isXAxis THEN targetEdgeMidpoints.top
                        ELSE targetEdgeMidpoints.left
        secondaryMid == IF isXAxis THEN targetEdgeMidpoints.bottom
                        ELSE targetEdgeMidpoints.right
        primaryDirection   == IF isXAxis THEN "top" ELSE "left"
        secondaryDirection == IF isXAxis THEN "bottom" ELSE "right"
        found == NearestLoop(allPoints, Len(allPoints), isXAxis, primaryMid,
                             secondaryMid)
        primaryLabel ==
            IF found.nearestPrimary # Null
            THEN createDistanceLabelWithLineByEdge(found.nearestPrimary,
                     primaryDirection, targetEdgeMidpoints)
            ELSE Null
        secondaryLabel ==
            IF found.nearestSecondary # Null
            THEN createDistanceLabelWithLineByEdge(found.nearestSecondary,
                     secondaryDirection, targetEdgeMidpoints)
            ELSE Null
    IN  chooseLabels(primaryLabel, secondaryLabel)

calculateDistanceLabels(targetBox, snapResults) ==
    LET targetEdgeMidpoints == getElementEdgeMidpoints(targetBox)
    IN  processAxisDistanceLabels(snapResults.x, targetEdgeMidpoints, "x")
            \o processAxisDistanceLabels(snapResults.y, targetEdgeMidpoints, "y")

-----------------------------------------------------------------------------
(* snap-render.ts: the pooled render elements.  A cache is the sequence of *)
(* the visible flags of its elements.                                      *)

\* drawLines, drawSnapPoints, drawDistanceLines, drawDistanceLabels: the first
\* n elements are shown, created when the cache is shorter
DrawInto(cache, n) ==
    [i \in 1..(IF n > Len(cache) THEN n ELSE Len(cache)) |->
        IF i <= n THEN TRUE ELSE cache[i]]

\* how many elements drawing n items adds to app.sky
Created(cache, n) == IF n > Len(cache) THEN n - Len(cache) ELSE 0

drawEqualSpacingBoxes(cache, n) == DrawInto(cache, n)

hideRenderElements(cache) == [i \in 1..Len(cache) |-> FALSE]

\* the de-duplication of drawSnapPoints: a point is kept when no earlier point
\* lies within one pixel of it on both axes
uniquePoints(points) ==
    LET idx == { i \in 1..Len(points) :
                   ~\E j \in 1..(i - 1) :
                       /\ Abs(points[j].x - points[i].x) < Px(1)
                       /\ Abs(points[j].y - points[i].y) < Px(1) }
    IN  SelectSeq([i \in 1..Len(points) |-> [i |-> i, p |-> points[i]]],
                  LAMBDA e : e.i \in idx)

-----------------------------------------------------------------------------
(* config.ts and index.ts: configuration *)

\* a default configuration with distance labels and spacing boxes switched off
quietConfig ==
    [parentContainer |-> Null,
     filter |-> {},
     viewportOnly |-> TRUE,
     snapSize |-> 5,
     showLine |-> TRUE,
     showLinePoints |-> TRUE,
     showDistanceLabels |-> FALSE,
     showEqualSpacingBoxes |-> FALSE]

\* config.filter is given as the set of shapes it rejects
DEFAULT_CONFIG ==
    [parentContainer |-> Null,
     filter |-> {},
     viewportOnly |-> TRUE,
     snapSize |-> 5,
     showLine |-> TRUE,
     showLinePoints |-> TRUE,
     showDistanceLabels |-> TRUE,
     showEqualSpacingBoxes |-> TRUE]

\* { ...a, ...b }
Merge(a, b) ==
    [k \in DOMAIN a \cup DOMAIN b |-> IF k \in DOMAIN b THEN b[k] ELSE a[k]]

\* the config arguments the constructor is given
UserConfigs ==
    { [snapSize |-> 1], [snapSize |-> 1, filter |-> Range(Children)] }

\* the arguments updateConfig is given
ConfigPatches == { [showLine |-> FALSE] }

\* get parentContainer()
parentContainer(cfg) ==
    IF cfg.parentContainer # Null THEN cfg.parentContainer ELSE "tree"

-----------------------------------------------------------------------------
(* utils.ts and index.ts: the eligible shapes *)

isValidElement(id) == ~IsLeafer(id) /\ Tag(id) # "SimulateElement"

getAllElements(parent) == SelectSeq(<<parent>> \o Children, isValidElement)

\* Bounds.hit of the host library
Hit(vb, b) ==
    ~(\/ vb.y + vb.height < b.y
      \/ b.y + b.h < vb.y
      \/ vb.x + vb.width < b.x
      \/ b.x + b.w < vb.x)

getViewportElements(parent, p, sel) ==
    LET vb == [x |-> (-ZoomLayer.x) \div scaleX, y |-> (-ZoomLayer.y) \div scaleX,
               width |-> (-ZoomLayer.x + ZoomLayer.width) \div scaleX,
               height |-> (-ZoomLayer.y + ZoomLayer.height) \div scaleX]
    IN  SelectSeq(getAllElements(parent), LAMBDA id : Hit(vb, BoxOf(id, p, sel)))

collectSnapElements(cfg, p, sel) ==
    LET selectedElements == Range(sel)
        allElements == IF cfg.viewportOnly
                       THEN getViewportElements(parentContainer(cfg), p, sel)
                       ELSE getAllElements(parentContainer(cfg))
    IN  SelectSeq(allElements, LAMBDA element :
            IF element \in selectedElements THEN FALSE
            ELSE IF ~IsSnapAttr(element) THEN FALSE
            ELSE element \notin cfg.filter)

-----------------------------------------------------------------------------
(* index.ts: the move tick *)

\* handle(ui, axis, snap) of applySnapOffset, on the coordinate v = ui[axis]
\* the offset added instead of subtracted
added(v, snap) == v + snap.offset

\* half of the offset subtracted
halfway(v, snap) == v - snap.offset \div 2

handle(v, snap) == v - snap.offset

\* applySnapOffset: the positions after the offsets of the winners snapX and
\* snapY; the simulate element of a multi-selection spans the moved shapes
\* the offset applied to the first shape of the selection only
applyToFirst(p, sel, snapX, snapY, keyEvent) ==
    IF keyEvent THEN p
    ELSE [id \in DOMAIN p |->
            IF id = sel[1]
            THEN [x |-> IF snapX # Null THEN p[id].x - snapX.offset ELSE p[id].x,
                  y |-> IF snapY # Null THEN p[id].y - snapY.offset ELSE p[id].y]
            ELSE p[id]]

applySnapOffset(p, sel, snapX, snapY, keyEvent) ==
    IF keyEvent THEN p
    ELSE [id \in DOMAIN p |->
            IF id \in Range(sel)
            THEN [x |-> IF snapX # Null THEN handle(p[id].x, snapX) ELSE p[id].x,
                  y |-> IF snapY # Null THEN handle(p[id].y, snapY) ELSE p[id].y]
            ELSE p[id]]

\* the body of the results.forEach of renderSnapLines for one result
LinePlan(axis, result, targetSnapLines) ==
    LET line == result.line
        sameTypeLines ==
            SelectSeq(targetSnapLines, LAMBDA v :
                v.type = line.type /\ toFixed(v.value) = toFixed(line.value))
        allPoints ==
            filterMidPoints(axis,
                result.collisionPoints
                    \o Flat([i \in 1..Len(sameTypeLines) |-> sameTypeLines[i].points]))
        inv == { IF axis = "x" THEN allPoints[i].y ELSE allPoints[i].x :
                    i \in 1..Len(allPoints) }
    IN  IF Len(sameTypeLines) > 0 /\ Len(allPoints) > 0
        THEN [drawn |-> TRUE, result |-> result, allPoints |-> allPoints,
              points |-> IF axis = "x"
                         THEN <<line.value, MinOf(inv), line.value, MaxOf(inv)>>
                         ELSE <<MinOf(inv), line.value, MaxOf(inv), line.value>>]
        ELSE [drawn |-> FALSE]

\* what renderSnapLines computes for the target box and the (sorted) results
RenderPlan(targetBox, snapResult) ==
    LET targetSnapLines == createSnapLines(createSnapPoints("target", targetBox))
        plans(axis) ==
            SelectSeq([i \in 1..Len(snapResult[axis]) |->
                          LinePlan(axis, snapResult[axis][i], targetSnapLines)],
                      LAMBDA pl : pl.drawn)
        px == plans("x")
        py == plans("y")
        labelResults == [x |-> [i \in 1..Len(px) |-> px[i].result],
                         y |-> [i \in 1..Len(py) |-> py[i].result]]
    IN  [vertical   |-> [i \in 1..Len(px) |-> px[i].points],
         horizontal |-> [i \in 1..Len(py) |-> py[i].points],
         allCollisionPoints |->
             Flat([i \in 1..Len(px) |-> px[i].allPoints])
                \o Flat([i \in 1..Len(py) |-> py[i].allPoints]),
         distanceLabels |-> calculateDistanceLabels(targetBox, labelResults)]

\* everything executeMove computes, for the positions p it finds
MoveOutcome(p) ==
    LET target       == Target(list)
        targetPoints == getElementBoundPoints(BoxOf(target, p, list))
        snapResult   == calculateSnap(targetPoints, snapLines, config.snapSize)
        bestX        == selectBestLineCollision(snapResult.x)
        bestY        == selectBestLineCollision(snapResult.y)
        sorted       == [x |-> SortedResults(snapResult.x),
                         y |-> SortedResults(snapResult.y)]
        p2           == applySnapOffset(p, list, bestX, bestY, isKeyEvent)
        render       == config.showLine
                        /\ (Len(snapResult.x) > 0 \/ Len(snapResult.y) > 0)
        plan         == RenderPlan(BoxOf(target, p2, list), sorted)
        els          == SelectSeq(snapElements,
                            LAMBDA id : id # parentContainer(config))
        spacing      == IF config.showEqualSpacingBoxes
                        THEN calculateEqualSpacing(target, els, p2, list)
                        ELSE <<>>
    IN  [targetPoints |-> targetPoints, snapResult |-> snapResult,
         best |-> [x |-> bestX, y |-> bestY], pos |-> p2,
         render |-> render, plan |-> plan, spacing |-> spacing]

-----------------------------------------------------------------------------
Init ==
    /\ config \in { Merge(DEFAULT_CONFIG, c) : c \in UserConfigs }
    /\ isEnabled = FALSE
    /\ isSnapping = FALSE
    /\ isKeyEvent = FALSE
    /\ snapElements = <<>>
    /\ snapPoints = <<>>
    /\ snapLines = <<>>
    /\ verticalLines = <<>>
    /\ horizontalLines = <<>>
    /\ linePointGroups = <<>>
    /\ distanceLabels = <<>>
    /\ distanceLines = <<>>
    /\ equalSpacingBoxes = <<>>
    /\ listeners = 0
    /\ list \in Selections
    /\ pos = HomePos
    /\ held = {}
    /\ sky = 0
    /\ \E v \in Views : scaleX = v[1] /\ layerY = v[2]
    /\ last = [ev |-> "init"]

-----------------------------------------------------------------------------
(* index.ts: the Snap class.  Each action is one event of the host or one  *)
(* call of the public interface, with the handler it reaches.              *)

caches == <<verticalLines, horizontalLines, linePointGroups, distanceLabels,
            distanceLines, equalSpacingBoxes>>

index == <<snapElements, snapPoints, snapLines>>

\* cachedElements.flat().length
CachedCount ==
    Len(verticalLines) + Len(horizontalLines) + Len(linePointGroups)
        + Len(distanceLabels) + Len(distanceLines) + Len(equalSpacingBoxes)

\* a cache whose elements are left in place
kept(group) == group

\* group.length = 0
emptied(group) == <<>>

\* clear(): destroyRenderElements on every cached element, then the caches emptied
clear ==
    /\ sky' = sky - CachedCount
    /\ verticalLines' = emptied(verticalLines)
    /\ horizontalLines' = emptied(horizontalLines)
    /\ linePointGroups' = emptied(linePointGroups)
    /\ distanceLabels' = emptied(distanceLabels)
    /\ distanceLines' = emptied(distanceLines)
    /\ equalSpacingBoxes' = emptied(equalSpacingBoxes)

\* a destroy() that forgets the index but leaves isSnapping as it is
destroyKeepingFlag ==
    /\ clear
    /\ snapElements' = <<>>
    /\ snapPoints' = <<>>
    /\ snapLines' = <<>>
    /\ UNCHANGED isSnapping

\* a destroy() that leaves the index as it is
destroyKeepingIndex ==
    /\ clear
    /\ UNCHANGED index
    /\ isSnapping' = FALSE

\* destroy(): clear(), the index emptied, isSnapping reset
destroy ==
    /\ clear
    /\ snapElements' = <<>>
    /\ snapPoints' = <<>>
    /\ snapLines' = <<>>
    /\ isSnapping' = FALSE

\* attachEvents() and detachEvents(): on() adds a registration, off() removes one
attachEvents == listeners' = listeners + 1

detachEvents == listeners' = IF listeners > 0 THEN listeners - 1 ELSE 0

\* a check that never finds the flag already set
neverSame(current, enabled) == FALSE

\* this.isEnabled === enabled, on which enable returns at once
sameFlag(current, enabled) == current = enabled

\* enable(enabled)
Enable(enabled) ==
    /\ last' = [ev |-> IF enabled THEN "enable" ELSE "disable",
                had |-> isSnapping /\ CachedCount > 0]
    /\ UNCHANGED <<scaleX, layerY, config, isKeyEvent, list, pos, held>>
    /\ IF sameFlag(isEnabled, enabled)
       THEN UNCHANGED <<isEnabled, isSnapping, index, caches, listeners, sky>>
       ELSE /\ isEnabled' = enabled
            /\ IF enabled
               THEN /\ attachEvents
                    /\ UNCHANGED <<isSnapping, index, caches, sky>>
               ELSE /\ detachEvents
                    /\ destroy

\* updateConfig(patch)
UpdateConfig(patch) ==
    /\ ~isSnapping
    /\ config' = Merge(config, patch)
    /\ last' = [ev |-> "config"]
    /\ UNCHANGED <<scaleX, layerY, isEnabled, isSnapping, isKeyEvent, index, caches,
                   listeners, list, pos, held, sky>>

\* a guard that lets a gesture in progress through
returnsWhenDisabled(enabled, snapping) == ~enabled

\* the early return of handleBeforeMove
returnsEarly(enabled, snapping) == ~enabled \/ snapping

\* handleBeforeMove
handleBeforeMove ==
    IF returnsEarly(isEnabled, isSnapping)
    THEN UNCHANGED <<index, isSnapping>>
    ELSE LET els == collectSnapElements(config, pos, list)
             pts == Flat([i \in 1..Len(els) |->
                             createSnapPoints(els[i], BoxOf(els[i], pos, list))])
         IN  /\ snapElements' = els
             /\ snapPoints' = pts
             /\ snapLines' = createSnapLines(pts)
             /\ isSnapping' = TRUE

\* the editor emits EditorMoveEvent.BEFORE_MOVE
BeforeMove ==
    /\ last' = [ev |-> "beforeMove",
                built |-> listeners > 0 /\ ~returnsEarly(isEnabled, isSnapping)]
    /\ UNCHANGED <<scaleX, layerY, config, isEnabled, isKeyEvent, caches, listeners, list, pos,
                   held, sky>>
    /\ IF listeners > 0 THEN handleBeforeMove ELSE UNCHANGED <<index, isSnapping>>

\* executeMove for the positions p the editor has moved the selection to
executeMove(p) ==
    \E out \in {MoveOutcome(p)} :
    LET hide(cache) == IF isSnapping THEN hideRenderElements(cache) ELSE cache
        nV == Len(out.plan.vertical)
        nH == Len(out.plan.horizontal)
        nP == Len(uniquePoints(out.plan.allCollisionPoints))
        nL == Len(out.plan.distanceLabels)
        nB == Len(out.spacing)
        points == out.render /\ config.showLinePoints
        labels == out.render /\ config.showDistanceLabels
        boxes  == config.showEqualSpacingBoxes
    IN  /\ pos' = out.pos
        /\ verticalLines' =
              IF out.render THEN DrawInto(hide(verticalLines), nV)
              ELSE hide(verticalLines)
        /\ horizontalLines' =
              IF out.render THEN DrawInto(hide(horizontalLines), nH)
              ELSE hide(horizontalLines)
        /\ linePointGroups' =
              IF points THEN DrawInto(linePointGroups, nP) ELSE linePointGroups
        /\ distanceLines' =
              IF labels THEN DrawInto(distanceLines, nL) ELSE distanceLines
        /\ distanceLabels' =
              IF labels THEN DrawInto(hide(distanceLabels), nL)
              ELSE hide(distanceLabels)
        /\ equalSpacingBoxes' =
              IF boxes THEN drawEqualSpacingBoxes(hide(equalSpacingBoxes), nB)
              ELSE hide(equalSpacingBoxes)
        /\ sky' = sky
              + (IF out.render
                 THEN Created(verticalLines, nV) + Created(horizontalLines, nH)
                 ELSE 0)
              + (IF points THEN Created(linePointGroups, nP) ELSE 0)
              + (IF labels
                 THEN Created(distanceLines, nL) + Created(distanceLabels, nL)
                 ELSE 0)
              + (IF boxes THEN Created(equalSpacingBoxes, nB) ELSE 0)
        /\ last' = [ev |-> "move", executed |-> TRUE, pre |-> p,
                    keyEvent |-> isKeyEvent, held |-> held,
                    targetPoints |-> out.targetPoints,
                    snapResult |-> out.snapResult, best |-> out.best,
                    render |-> out.render, plan |-> out.plan,
                    spacing |-> out.spacing]

\* where the editor puts the selection sel for a pointer or key move (dx, dy)
HostMoved(p, sel, dx, dy) ==
    [id \in DOMAIN p |->
        IF id \in Range(sel) THEN [x |-> p[id].x + dx, y |-> p[id].y + dy]
        ELSE p[id]]

\* the moves of one tick, in ticks: none, or half a pixel along one axis
Moves ==
    { <<0, 0>>, <<-(PX \div 2), 0>>, <<PX \div 2, 0>>, <<0, -(PX \div 2)>>,
      <<0, PX \div 2>> }

\* the window the first selected shape is kept in, in ticks around its home
WinLeft == 6

WinRight == 0

WinUp == 2

WinDown == 0

InWindow(p, sel) ==
    /\ p[sel[1]].x >= HomePos[sel[1]].x - WinLeft
    /\ p[sel[1]].x <= HomePos[sel[1]].x + WinRight
    /\ p[sel[1]].y >= HomePos[sel[1]].y - WinUp
    /\ p[sel[1]].y <= HomePos[sel[1]].y + WinDown

\* the editor moves the selection and emits EditorMoveEvent.MOVE: handleMove
Move(moveX, moveY) ==
    LET p == HostMoved(pos, list, moveX, moveY)
    IN  /\ InWindow(p, list)
        /\ UNCHANGED <<scaleX, layerY, config, isEnabled, isSnapping, isKeyEvent, index,
                       listeners, list, held>>
        /\ IF listeners > 0 /\ isEnabled /\ ~(moveX = 0 /\ moveY = 0)
           THEN executeMove(p)
           ELSE /\ pos' = p
                /\ last' = [ev |-> "move", executed |-> FALSE]
                /\ UNCHANGED <<caches, sky>>

\* KeyEvent.code values the host delivers
KeyCodes == {"ArrowLeft", "ArrowUp", "KeyA"}

arrowKeys == {"ArrowDown", "ArrowUp", "ArrowLeft", "ArrowRight"}

\* handleKeyEvent
handleKeyEvent(type, code) ==
    IF code \in arrowKeys THEN isKeyEvent' = (type = "down")
    ELSE UNCHANGED isKeyEvent

\* the host delivers KeyEvent.DOWN (also as auto-repeat) or KeyEvent.UP
KeyEvent(type, code) ==
    /\ type = "up" => code \in held \/ code \notin arrowKeys
    /\ held' = IF code \notin arrowKeys THEN held
               ELSE IF type = "down" THEN held \cup {code} ELSE held \ {code}
    /\ last' = [ev |-> "key"]
    /\ UNCHANGED <<scaleX, layerY, config, isEnabled, isSnapping, index, caches, listeners, list,
                   pos, sky>>
    /\ IF listeners > 0 THEN handleKeyEvent(type, code) ELSE UNCHANGED isKeyEvent

\* the host delivers PointerEvent.UP, which is bound to destroy
PointerUp ==
    /\ last' = [ev |-> "up", delivered |-> listeners > 0,
                had |-> isSnapping /\ CachedCount > 0]
    /\ UNCHANGED <<scaleX, layerY, config, isEnabled, isKeyEvent, listeners, list, pos, held>>
    /\ IF listeners > 0 THEN destroy
       ELSE UNCHANGED <<index, isSnapping, caches, sky>>

\* the tree emits LayoutEvent.AFTER, which is bound to clear
LayoutAfter ==
    /\ last' = [ev |-> "layout", delivered |-> listeners > 0,
                had |-> isSnapping /\ CachedCount > 0]
    /\ UNCHANGED <<scaleX, layerY, config, isEnabled, isSnapping, isKeyEvent, index, listeners,
                   list, pos, held>>
    /\ IF listeners > 0 THEN clear ELSE UNCHANGED <<caches, sky>>

\* the public destroy()
Destroy ==
    /\ last' = [ev |-> "destroy"]
    /\ UNCHANGED <<scaleX, layerY, config, isEnabled, isKeyEvent, listeners, list, pos, held>>
    /\ destroy

\* the editor's selection changes while the shapes are at their home positions
Select(sel) ==
    /\ pos = HomePos
    /\ sel # list
    /\ list' = sel
    /\ last' = [ev |-> "select"]
    /\ UNCHANGED <<scaleX, layerY, config, isEnabled, isSnapping, isKeyEvent, index, caches,
                   listeners, pos, held, sky>>

Next ==
    \/ \E enabled \in BOOLEAN : Enable(enabled)
    \/ \E patch \in ConfigPatches : UpdateConfig(patch)
    \/ BeforeMove
    \/ \E m \in Moves : Move(m[1], m[2])
    \/ \E type \in {"down", "up"}, code \in KeyCodes : KeyEvent(type, code)
    \/ PointerUp
    \/ LayoutAfter
    \/ Destroy
    \/ \E sel \in Selections : Select(sel)

Spec == Init /\ [][Next]_vars
-----------------------------------------------------------------------------
(* Properties.  last records what the latest event computed, so a property  *)
(* of a move tick is a property of the state the tick leaves behind.        *)

Axes == {"x", "y"}

\* the latest event was a move tick that ran executeMove
Ticked == last.ev = "move" /\ last.executed

\* the target's boundary points before the tick's offset and now
PrePoints == BoundPointValues(last.targetPoints)

LivePoints ==
    BoundPointValues(getElementBoundPoints(BoxOf(Target(list), pos, list)))

\* the offset the tick applied on an axis
Applied(axis) ==
    IF ~last.keyEvent /\ last.best[axis] # Null THEN last.best[axis].offset ELSE 0

\* C1: on each axis with a winner whose offset is applied, the winner's offset
\* is the signed distance of a live point achieving its distance, and after
\* the tick that boundary point of the target lies exactly on the winner's line.
C1_OffsetCorrectness ==
    (Ticked /\ ~last.keyEvent) =>
        \A axis \in Axes :
            LET w == last.best[axis]
            IN  w # Null =>
                    \E i \in 1..Len(PrePoints) :
                        /\ Coord(PrePoints[i], axis) - w.offset = w.line.value
                        /\ Abs(Coord(PrePoints[i], axis) - w.line.value) = w.distance
                        /\ Coord(LivePoints[i], axis) = w.line.value

C1_Witness ==
    /\ Ticked
    /\ ~last.keyEvent
    /\ \E axis \in Axes : last.best[axis] # Null /\ last.best[axis].offset # 0
    /\ pos # last.pre

\* the results of the tick for one axis
Results(axis) == last.snapResult[axis]

AxisOf(line) == IF line.type = "vertical" THEN "x" ELSE "y"

\* C2: a tick emits a result for an indexed line exactly when some live
\* boundary point is at a distance of at most the tolerance from the line.
C2_ToleranceBoundary ==
    Ticked =>
        \A i \in 1..Len(snapLines) :
            LET line == snapLines[i]
                axis == AxisOf(line)
            IN  (\E k \in 1..Len(Results(axis)) : Results(axis)[k].line = line)
                <=> (\E j \in 1..Len(PrePoints) :
                        Abs(Coord(PrePoints[j], axis) - line.value)
                            <= Px(config.snapSize))

\* the first position of rs holding the smallest distance
FirstMin(rs) ==
    CHOOSE i \in 1..Len(rs) :
        /\ \A j \in 1..Len(rs) : rs[j].distance >= rs[i].distance
        /\ \A j \in 1..(i - 1) : rs[j].distance > rs[i].distance

\* C3: the winner of an axis is nothing when the axis has no result, and
\* otherwise the first, in input order, of the results of smallest distance.
C3_BestMatchSelection ==
    Ticked =>
        \A axis \in Axes :
            IF Len(Results(axis)) = 0 THEN last.best[axis] = Null
            ELSE last.best[axis] = Results(axis)[FirstMin(Results(axis))]

C3_Witness ==
    /\ Ticked
    /\ \E axis \in Axes : Len(Results(axis)) >= 2 /\ FirstMin(Results(axis)) > 1
    /\ \E axis \in Axes :
          \E i, j \in 1..Len(Results(axis)) :
              /\ i < j
              /\ i = FirstMin(Results(axis))
              /\ Results(axis)[j].distance = Results(axis)[i].distance
              /\ Results(axis)[j] # Results(axis)[i]

\* C4: a tick that runs while an arrow key is held moves no shape.
C4_KeyboardNeverSnapped ==
    (Ticked /\ last.held # {}) => pos = last.pre

\* C5: while a gesture is in progress, a move-begin or a move tick leaves
\* snapElements, snapPoints and snapLines as they are.
C5_IndexImmutable ==
    [][(isSnapping /\ last'.ev \in {"beforeMove", "move"}) => index' = index]_vars

C5_Witness ==
    /\ Ticked
    /\ isSnapping
    /\ Len(snapLines) > 0
    /\ pos # last.pre

NoIndex == snapElements = <<>> /\ snapPoints = <<>> /\ snapLines = <<>>

TornDown == NoIndex /\ ~isSnapping /\ CachedCount = 0 /\ sky = 0

\* C7: right after a delivered pointer-up and right after enable(false), the
\* index is empty, isSnapping is false, every cache is empty and no render
\* element is left in the host.
C7_Teardown ==
    ((last.ev = "up" /\ last.delivered) \/ last.ev = "disable") => TornDown

C7_Witness ==
    /\ (last.ev = "up" /\ last.delivered) \/ last.ev = "disable"
    /\ last.had
    /\ TornDown

\* C8: a tick moves every selected shape by the offset applied on each axis,
\* which is zero on an axis without a winner, and moves no other shape.
C8_RigidGroupMove ==
    Ticked =>
        \A id \in Movable :
            IF id \in Range(list)
            THEN /\ pos[id].x = last.pre[id].x - Applied("x")
                 /\ pos[id].y = last.pre[id].y - Applied("y")
            ELSE pos[id] = last.pre[id]

C8_Witness ==
    /\ Ticked
    /\ Multiple(list)
    /\ last.best["x"] = Null
    /\ Applied("y") # 0
    /\ \A id \in Range(list) : pos[id].y # last.pre[id].y

\* the signed distances of the target points of a result from its line
Signed(r, axis) ==
    [j \in 1..Len(r.targetPoints) |-> Coord(r.targetPoints[j], axis) - r.line.value]

\* C9: every result has at least one target point, its target points are the
\* colliding boundary points in evaluation order, its distance is the smallest
\* absolute distance among them, and its offset is the signed distance of the
\* first of them at that distance.
C9_CollisionResultInvariant ==
    Ticked =>
        \A axis \in Axes :
            \A k \in 1..Len(Results(axis)) :
                LET r == Results(axis)[k]
                    d == Signed(r, axis)
                    m == MinOf({ Abs(d[j]) : j \in 1..Len(d) })
                    first == MinOf({ j \in 1..Len(d) : Abs(d[j]) = m })
                IN  /\ Len(r.targetPoints) > 0
                    /\ r.targetPoints
                         = SelectSeq(PrePoints, LAMBDA q : q \in Range(r.targetPoints))
                    /\ r.distance >= 0
                    /\ r.distance = m
                    /\ Abs(r.offset) = r.distance
                    /\ r.offset = d[first]

C9_Witness ==
    /\ Ticked
    /\ \E axis \in Axes :
          \E k \in 1..Len(Results(axis)) :
              LET r == Results(axis)[k]
                  d == Signed(r, axis)
              IN  \E i, j \in 1..Len(d) :
                      /\ i < j
                      /\ d[i] = -d[j]
                      /\ d[i] # 0
                      /\ Abs(d[i]) = r.distance
                      /\ r.offset = d[i]

\* the eligible shapes of the index, other than parentContainer
Eligible == SelectSeq(snapElements, LAMBDA id : id # parentContainer(config))

\* the group of an axis as the shapes stand now: the target and the eligible
\* shapes that overlap it on the other axis, sorted by leading edge
NowGroup(axis) ==
    SpacingGroup(axis, WithBounds(Append(Eligible, Target(list)), pos, list),
                 getElementBoundPoints(BoxOf(Target(list), pos, list)))

\* the gap after the i-th shape of a group, in ticks
Gap(axis, group, i) == getStart(axis, group[i + 1].b) - getEnd(axis, group[i].b)

\* the results of the tick for the gap after the i-th shape of the group
GapResults(axis, group, i) ==
    { k \in 1..Len(last.spacing) :
        /\ last.spacing[k].axis = axis
        /\ last.spacing[k].prevElement = group[i].id
        /\ last.spacing[k].nextElement = group[i + 1].id }

\* the gaps a..b of the group are equal and positive and one touches the target
EqualRun(axis, group, a, b) ==
    /\ a < b
    /\ Gap(axis, group, a) > 0
    /\ \A i \in a..b : Gap(axis, group, i) = Gap(axis, group, a)
    /\ \E i \in a..(b + 1) : group[i].id = Target(list)

\* every gap of every run of the group has one result, of the gap's own size
RunsReportedExactly(axis, group) ==
    \A a, b \in 1..(Len(group) - 1) :
        EqualRun(axis, group, a, b) =>
            \A i \in a..b :
                /\ Cardinality(GapResults(axis, group, i)) = 1
                /\ \A k \in GapResults(axis, group, i) :
                      Px(last.spacing[k].equalSpacing) = Gap(axis, group, a)

\* C10 as stated: every gap of a run of two or more equal gaps g next to the
\* moving shape has exactly one result, and that result has spacing g.
C10_EqualSpacingDetection ==
    Ticked => \A axis \in Axes : RunsReportedExactly(axis, NowGroup(axis))

\* every gap of every run of the group has one result, of a spacing within
\* the tolerance of the rounded gap
RunsReportedWithinTolerance(axis, group) ==
    \A a, b \in 1..(Len(group) - 1) :
        (EqualRun(axis, group, a, b) /\ toFixed(Gap(axis, group, a)) >= 1) =>
            \A i \in a..b :
                /\ Cardinality(GapResults(axis, group, i)) = 1
                /\ \A k \in GapResults(axis, group, i) :
                      Abs(last.spacing[k].equalSpacing
                            - toFixed(Gap(axis, group, a))) <= tolerance

\* C10: every gap of a run of two or more equal gaps next to the moving shape,
\* of a size that rounds to one pixel or more, has exactly one result, and that
\* result's spacing is within the tolerance of the rounded gap.
C10_EqualSpacingWithinTolerance ==
    Ticked => \A axis \in Axes : RunsReportedWithinTolerance(axis, NowGroup(axis))

\* three shapes and the target after them, 10 pixels apart, each gap reported
\* once with spacing 10
RowOfFour(axis, group) ==
    /\ Len(group) >= 4
    /\ group[4].id = Target(list)
    /\ EqualRun(axis, group, 1, 3)
    /\ Gap(axis, group, 1) = Px(10)
    /\ \A i \in 1..3 :
          /\ Cardinality(GapResults(axis, group, i)) = 1
          /\ \A k \in GapResults(axis, group, i) : last.spacing[k].equalSpacing = 10

C10_Witness == Ticked /\ RowOfFour("x", NowGroup("x"))
-----------------------------------------------------------------------------
\* the gap after the i-th shape of a group as findEqualSpacing sizes it, in pixels
Rounded(axis, group, i) == toFixed(Gap(axis, group, i))

\* the gaps (as pairs of shapes) of the results that share r's axis and spacing
ClusterOf(r) ==
    { <<last.spacing[k].prevElement, last.spacing[k].nextElement>> :
        k \in { j \in 1..Len(last.spacing) :
                  /\ last.spacing[j].axis = r.axis
                  /\ last.spacing[j].equalSpacing = r.equalSpacing } }

\* r reports a gap between consecutive shapes of the group, positive and
\* within the tolerance of r's spacing
IsGapOf(r, group) ==
    \E i \in 1..(Len(group) - 1) :
        /\ group[i].id = r.prevElement
        /\ group[i + 1].id = r.nextElement
        /\ Rounded(r.axis, group, i) > 0
        /\ Abs(Rounded(r.axis, group, i) - r.equalSpacing) <= tolerance

\* the positive gaps of the group that have the moving shape on one side
TargetGaps(axis, group) ==
    { i \in 1..(Len(group) - 1) :
        /\ Target(list) \in {group[i].id, group[i + 1].id}
        /\ Rounded(axis, group, i) > 0 }

\* the moving shape has one neighbouring gap and no other gap of the group
\* matches its size
LoneGap(axis, group) ==
    /\ Cardinality(TargetGaps(axis, group)) = 1
    /\ \A i \in TargetGaps(axis, group) :
          \A j \in (1..(Len(group) - 1)) \ {i} :
              Rounded(axis, group, j) > 0 =>
                  Abs(Rounded(axis, group, j) - Rounded(axis, group, i)) > tolerance

NoFalseSpacing(axis, group) ==
    /\ \A k \in 1..Len(last.spacing) :
          last.spacing[k].axis = axis =>
              /\ last.spacing[k].equalSpacing > 0
              /\ IsGapOf(last.spacing[k], group)
              /\ Cardinality(ClusterOf(last.spacing[k])) >= 2
              /\ \E g \in ClusterOf(last.spacing[k]) :
                    Target(list) \in {g[1], g[2]}
    /\ LoneGap(axis, group) =>
          \A k \in 1..Len(last.spacing) : last.spacing[k].axis # axis

\* C11: every equal-spacing result of a tick has a spacing above zero and
\* reports a real gap of its axis' group; the results of its axis and spacing
\* cover at least two gaps, one of which has the moving shape as its prev or
\* next shape; and a moving shape with one neighbouring gap that no other gap
\* of the group matches has no result on that axis.
C11_NoFalseSpacing ==
    Ticked => \A axis \in Axes : NoFalseSpacing(axis, NowGroup(axis))

\* a tick that reports a cluster around the moving shape
C11_Witness ==
    /\ Ticked
    /\ \E k \in 1..Len(last.spacing) :
          /\ Target(list) \in {last.spacing[k].prevElement,
                              last.spacing[k].nextElement}
          /\ Cardinality(ClusterOf(last.spacing[k])) >= 2

\* a tick on which the moving shape has a lone gap in its column
C11_LoneGapTick == Ticked /\ LoneGap("y", NowGroup("y"))

-----------------------------------------------------------------------------
\* the extent of bound points b across the axis: its first and last coordinate
CrossStart(axis, b) == IF axis = "x" THEN b.tl.y ELSE b.tl.x

CrossEnd(axis, b) == IF axis = "x" THEN b.bl.y ELSE b.br.x

\* the box of r, in ticks, as <<start, length>> along the axis and across it
Along(r) == IF r.axis = "x" THEN <<r.box.x, r.box.width>>
            ELSE <<r.box.y, r.box.height>>

Across(r) == IF r.axis = "x" THEN <<r.box.y, r.box.height>>
             ELSE <<r.box.x, r.box.width>>

\* the label of r, in half ticks, as <<along, across>>
Anchor(r) == IF r.axis = "x" THEN <<r.label.x, r.label.y>>
             ELSE <<r.label.y, r.label.x>>

\* the box of r spans the gap between the shapes prev and next of the group
\* and the intersection of their extents across the axis, and the label of r
\* is the centre of the box
BoxSpans(r, prev, next) ==
    /\ Along(r)[1] = getEnd(r.axis, prev.b)
    /\ Along(r)[1] + Along(r)[2] = getStart(r.axis, next.b)
    /\ Across(r)[1] = MaxOf({CrossStart(r.axis, prev.b), CrossStart(r.axis, next.b)})
    /\ Across(r)[1] + Across(r)[2]
          = MinOf({CrossEnd(r.axis, prev.b), CrossEnd(r.axis, next.b)})
    /\ Anchor(r)[1] = 2 * Along(r)[1] + Along(r)[2]
    /\ Anchor(r)[2] = 2 * Across(r)[1] + Across(r)[2]

BoxGeometry(r, group) ==
    \E i \in 1..(Len(group) - 1) :
        /\ group[i].id = r.prevElement
        /\ group[i + 1].id = r.nextElement
        /\ BoxSpans(r, group[i], group[i + 1])

\* C12 as stated: the box of every equal-spacing result runs along its axis
\* from the trailing edge of prevElement to the leading edge of nextElement,
\* covers across the axis the intersection of the two shapes' extents, and has
\* the label anchor at its centre.
C12_SpacingBoxGeometry ==
    Ticked => \A k \in 1..Len(last.spacing) :
                  BoxGeometry(last.spacing[k], NowGroup(last.spacing[k].axis))

-----------------------------------------------------------------------------
\* the gaps of the group (by the position of their first shape) that the
\* results of the tick report on the axis with the given spacing
Reported(axis, spacing, group) ==
    { i \in 1..(Len(group) - 1) :
        \E k \in 1..Len(last.spacing) :
            /\ last.spacing[k].axis = axis
            /\ last.spacing[k].equalSpacing = spacing
            /\ last.spacing[k].prevElement = group[i].id
            /\ last.spacing[k].nextElement = group[i + 1].id }

\* the gaps at the positions I of a group follow one another without a break,
\* each next to another, and one of them has the moving shape on one side
OneRun(I, group) ==
    /\ \A a, b \in I : \A c \in a..b : c \in I
    /\ \A a \in I : \E b \in I : b # a /\ Abs(a - b) = 1
    /\ \E a \in I : Target(list) \in {group[a].id, group[a + 1].id}

RunsAround(axis, group) ==
    \A k \in 1..Len(last.spacing) :
        last.spacing[k].axis = axis =>
            OneRun(Reported(axis, last.spacing[k].equalSpacing, group), group)

\* C13 as stated: on each axis the gaps reported with one spacing value are
\* consecutive in the sorted order of the group, each sharing a shape with
\* another of them, and include a gap next to the moving shape; an equal gap
\* that a gap of another size separates from the run is not reported.
C13_RunAroundMovingShape ==
    Ticked => \A axis \in Axes : RunsAround(axis, NowGroup(axis))

-----------------------------------------------------------------------------
\* the tick drew its guide lines and distance labels
Labelled == Ticked /\ last.render /\ config.showDistanceLabels

\* the snap lines of the moving shape where the tick left it
LiveLines ==
    createSnapLines(createSnapPoints("target", BoxOf(Target(list), pos, list)))

\* the results of an axis whose line the tick drew: the active alignments
Active(axis, lines) ==
    SelectSeq(SortedResults(last.snapResult[axis]),
              LAMBDA r : LinePlan(axis, r, lines).drawn)

\* the indexed points on the lines of the results rs that are not of the
\* midpoint types left out on the axis
Qualifying(axis, rs) ==
    UNION { Range(filterMidPoints(axis, rs[i].collisionPoints)) : i \in 1..Len(rs) }

\* the two sides of the moving shape an axis measures from
Sides(axis) == IF axis = "x" THEN <<"top", "bottom">> ELSE <<"left", "right">>

\* how far the point pt lies beyond the edge midpoint of a side, in ticks;
\* zero or less when it is not beyond it
Beyond(pt, side, mids) ==
    CASE side = "top"    -> mids.top.y - pt.y
      [] side = "bottom" -> pt.y - mids.bottom.y
      [] side = "left"   -> mids.left.x - pt.x
      [] side = "right"  -> pt.x - mids.right.x

\* the distances, in ticks, of the points a side can be measured to
Candidates(side, points, mids) ==
    { Beyond(pt, side, mids) : pt \in { q \in points : Beyond(q, side, mids) > 0 } }

\* the labels the tick emitted for a side
LabelsOf(side) ==
    SelectSeq(last.plan.distanceLabels, LAMBDA l : l.direction = side)

\* the distances (in pixels) of the labels emitted for a side
Emitted(side) == [i \in 1..Len(LabelsOf(side)) |-> LabelsOf(side)[i].distance]

\* what the label of a side with candidates c shows
Shown(c) == toFixed(MinOf(c))

\* the pairing rule for the candidates c1 and c2 of the two sides s1 and s2
Pairing(s1, c1, s2, c2) ==
    IF c1 # {} /\ c2 # {}
    THEN IF Shown(c1) = Shown(c2)
         THEN Emitted(s1) = <<Shown(c1)>> /\ Emitted(s2) = <<Shown(c2)>>
         ELSE IF Shown(c1) < Shown(c2)
         THEN Emitted(s1) = <<Shown(c1)>> /\ Emitted(s2) = <<>>
         ELSE Emitted(s1) = <<>> /\ Emitted(s2) = <<Shown(c2)>>
    ELSE IF c1 # {} THEN Emitted(s1) = <<Shown(c1)>> /\ Emitted(s2) = <<>>
    ELSE IF c2 # {} THEN Emitted(s1) = <<>> /\ Emitted(s2) = <<Shown(c2)>>
    ELSE Emitted(s1) = <<>> /\ Emitted(s2) = <<>>

PairingOn(axis, points, mids) ==
    Pairing(Sides(axis)[1], Candidates(Sides(axis)[1], points, mids),
            Sides(axis)[2], Candidates(Sides(axis)[2], points, mids))

\* the edge midpoints of the moving shape where the tick left it
LiveMids == getElementEdgeMidpoints(BoxOf(Target(list), pos, list))

\* C14: on each axis, when both sides of the moving shape have a candidate and
\* the two label distances are the same, both labels are emitted; when they
\* differ, only the label of the smaller distance; when one side alone has a
\* candidate, its label alone.
C14_LabelPairing ==
    Labelled => \A axis \in Axes :
                    PairingOn(axis, Qualifying(axis, Active(axis, LiveLines)), LiveMids)

\* a tick that emits the labels of both sides of one axis, with the same
\* distance, and the label of one side only of the other axis
C14_Witness ==
    /\ Labelled
    /\ Len(LabelsOf("top")) = 1 /\ Len(LabelsOf("bottom")) = 1
    /\ Emitted("top") = Emitted("bottom")
    /\ Len(LabelsOf("left")) = 1 /\ Len(LabelsOf("right")) = 0

\* a tick on which both sides of an axis have a candidate, at different distances
C14_UnequalTick ==
    /\ Labelled
    /\ \E axis \in Axes :
          LET points == Qualifying(axis, Active(axis, LiveLines))
              c1 == Candidates(Sides(axis)[1], points, LiveMids)
              c2 == Candidates(Sides(axis)[2], points, LiveMids)
          IN  c1 # {} /\ c2 # {} /\ Shown(c1) # Shown(c2)

-----------------------------------------------------------------------------
\* the indexed boundary points on the lines of the results rs that are not of
\* the midpoint types left out on the axis
Indexed(axis, rs) ==
    { pt \in Range(filterMidPoints(axis, snapPoints)) :
        \E i \in 1..Len(rs) : Coord(pt, axis) = rs[i].line.value }

\* every label emitted for a side is measured to a nearest of the points
MeasuredToNearest(side, points, mids) ==
    \A i \in 1..Len(LabelsOf(side)) :
        /\ Candidates(side, points, mids) # {}
        /\ Beyond(LabelsOf(side)[i].snapPoint, side, mids)
              = MinOf(Candidates(side, points, mids))

NearestOn(axis, points, mids) ==
    /\ MeasuredToNearest(Sides(axis)[1], points, mids)
    /\ MeasuredToNearest(Sides(axis)[2], points, mids)
    /\ PairingOn(axis, points, mids)

\* C15 as stated: the point a label of a side is measured to is the nearest of
\* the indexed boundary points that lie on an active line of the axis, are not
\* of the midpoint types left out on it and lie strictly beyond the edge
\* midpoint of the side; a side is without a candidate only when there is no
\* such indexed point, also when a point shares its coordinates with a
\* left-out midpoint of another shape.
C15_NearestQualifyingPoint ==
    Labelled => \A axis \in Axes :
                    NearestOn(axis, Indexed(axis, Active(axis, LiveLines)), LiveMids)

-----------------------------------------------------------------------------
\* the tick ran on an empty index: no eligible shape at move-begin, or no
\* index built since the last teardown
EmptyIndexTick == Ticked /\ (snapElements = <<>> \/ ~isSnapping)

\* C16: a move tick on an empty index finds no collision on either axis,
\* moves no shape, and produces no distance label and no equal-spacing result.
C16_EmptyIndexSafety ==
    EmptyIndexTick =>
        /\ last.snapResult = [x |-> <<>>, y |-> <<>>]
        /\ last.best = [x |-> Null, y |-> Null]
        /\ pos = last.pre
        /\ ~last.render
        /\ last.plan.distanceLabels = <<>>
        /\ \A i \in 1..Len(distanceLabels) : ~distanceLabels[i]
        /\ last.spacing = <<>>
        /\ \A i \in 1..Len(equalSpacingBoxes) : ~equalSpacingBoxes[i]

\* a tick of a gesture whose move-begin found no eligible shape
C16_Witness == Ticked /\ isSnapping /\ NoIndex

\* a tick with no index built since the last teardown, after a gesture that
\* had drawn
C16_IdleTick == Ticked /\ ~isSnapping /\ NoIndex /\ pos # HomePos

-----------------------------------------------------------------------------
(* createSnapLines on its own: the snap lines of every short sequence of    *)
(* snap points on a small grid.                                             *)

\* the longest sequence of snap points given to createSnapLines
MaxPoints == 3

\* the snap points createSnapLines is given: two x values, three y values
InputPoints ==
    [x : {0, PX}, y : {0, PX, 2 * PX}, type : {"tl", "br"}, element : {"A"}]

\* the sequences over S of length n or less
Seqs(S, n) == UNION { [1..k -> S] : k \in 0..n }

InitLines ==
    /\ config = Merge(DEFAULT_CONFIG, [snapSize |-> 1])
    /\ isEnabled = FALSE
    /\ isSnapping = FALSE
    /\ isKeyEvent = FALSE
    /\ snapElements = <<>>
    /\ snapPoints \in Seqs(InputPoints, MaxPoints)
    /\ snapLines = <<>>
    /\ verticalLines = <<>>
    /\ horizontalLines = <<>>
    /\ linePointGroups = <<>>
    /\ distanceLabels = <<>>
    /\ distanceLines = <<>>
    /\ equalSpacingBoxes = <<>>
    /\ listeners = 0
    /\ list = <<"U">>
    /\ pos = HomePos
    /\ held = {}
    /\ sky = 0
    /\ scaleX = 1
    /\ layerY = 0
    /\ last = [ev |-> "init"]

\* this.snapLines = createSnapLines(this.snapPoints)
BuildLines ==
    /\ last.ev = "init"
    /\ snapLines' = createSnapLines(snapPoints)
    /\ last' = [ev |-> "lines"]
    /\ UNCHANGED <<scaleX, layerY, config, isEnabled, isSnapping, isKeyEvent, snapElements,
                   snapPoints, caches, listeners, list, pos, held, sky>>

NextLines == BuildLines

SpecLines == InitLines /\ [][NextLines]_vars

\* snapLines is what createSnapLines made of snapPoints
Built == last.ev = "lines" \/ isSnapping

\* how often e occurs in the sequence s
Count(s, e) == Cardinality({ i \in 1..Len(s) : s[i] = e })

\* s and t hold the same elements, each as often
SameBag(s, t) ==
    /\ Len(s) = Len(t)
    /\ \A e \in Range(s) \cup Range(t) : Count(s, e) = Count(t, e)

\* the coordinate of p that orders the points of a line of the axis
Other(p, axis) == IF axis = "x" THEN p.y ELSE p.x

\* a line of the axis holds the points of pts with its value, in ascending order
LineOf(l, axis, pts) ==
    /\ l.points # <<>>
    /\ \A j \in 1..Len(l.points) : Coord(l.points[j], axis) = l.value
    /\ SameBag(l.points, SelectSeq(pts, LAMBDA p : Coord(p, axis) = l.value))
    /\ \A j \in 1..(Len(l.points) - 1) :
          Other(l.points[j], axis) <= Other(l.points[j + 1], axis)

\* the lines ls are the lines of the axis for the points pts, one per coordinate
LinesOf(ls, axis, pts) ==
    /\ { ls[i].value : i \in 1..Len(ls) } = { Coord(p, axis) : p \in Range(pts) }
    /\ Len(ls) = Cardinality({ Coord(p, axis) : p \in Range(pts) })
    /\ \A i \in 1..Len(ls) : LineOf(ls[i], axis, pts)

\* C17: the lines createSnapLines returns are one vertical line for each x and
\* one horizontal line for each y of the snap points given, also for a
\* coordinate only one point has; each line is non-empty, has the coordinate
\* of all its points as value, holds exactly the points given with that
\* coordinate, and holds them in ascending y (vertical) or x (horizontal).
C17_SnapLineInvariant ==
    Built =>
        /\ \A i \in 1..Len(snapLines) : snapLines[i].type \in {"vertical", "horizontal"}
        /\ LinesOf(SelectSeq(snapLines, LAMBDA l : l.type = "vertical"), "x", snapPoints)
        /\ LinesOf(SelectSeq(snapLines, LAMBDA l : l.type = "horizontal"), "y",
                   snapPoints)

\* lines built from points given out of order: a vertical line of one point,
\* and a vertical line whose points had to be put in order
C17_Witness ==
    /\ last.ev = "lines"
    /\ \E i \in 1..Len(snapLines) :
          snapLines[i].type = "vertical" /\ Len(snapLines[i].points) = 1
    /\ \E i \in 1..Len(snapLines) :
          /\ snapLines[i].type = "vertical"
          /\ snapLines[i].points
                # SelectSeq(snapPoints, LAMBDA p : p.x = snapLines[i].value)

-----------------------------------------------------------------------------
\* the eight points b are consistent: the midpoints are the exact means of
\* the corners of their edge and share the coordinate of the edge
Consistent(b) ==
    /\ DOMAIN b = Range(PointTypes)
    /\ 2 * b.mt.x = b.tl.x + b.tr.x /\ b.mb.x = b.mt.x
    /\ 2 * b.ml.y = b.tl.y + b.bl.y /\ b.mr.y = b.ml.y
    /\ b.mt.y = b.tl.y /\ b.tl.y = b.tr.y
    /\ b.mb.y = b.bl.y /\ b.bl.y = b.br.y
    /\ b.ml.x = b.tl.x /\ b.tl.x = b.bl.x
    /\ b.mr.x = b.tr.x /\ b.tr.x = b.br.x

\* the indexed snap points of shape id, by type
IndexedPoints(id) ==
    [t \in { p.type : p \in { q \in Range(snapPoints) : q.element = id } } |->
        LET p == CHOOSE q \in Range(snapPoints) : q.element = id /\ q.type = t
        IN  [x |-> p.x, y |-> p.y]]

\* C18: the eight points getElementBoundPoints returns for a shape, for the
\* index and for the moving shape on a tick, have mt.x and mb.x at exactly
\* (tl.x + tr.x) / 2, ml.y and mr.y at exactly (tl.y + bl.y) / 2, and every
\* midpoint on the coordinate of its edge.
C18_BoundaryPointConsistency ==
    /\ \A id \in Range(Children) \cup {Target(list)} :
          Consistent(getElementBoundPoints(BoxOf(id, pos, list)))
    /\ \A id \in Range(snapElements) : Consistent(IndexedPoints(id))
    /\ Ticked => Consistent(last.targetPoints)

\* a tick on a moving shape whose centre is not on a whole pixel, with an
\* indexed shape whose centre is not on a whole pixel either
C18_Witness ==
    /\ Ticked
    /\ last.targetPoints.mt.x % PX # 0
    /\ \E id \in Range(snapElements) : IndexedPoints(id).mt.x % PX # 0

\* every coordinate of the points b is a whole number of pixels
Whole(b) == \A t \in DOMAIN b : b[t].x % PX = 0 /\ b[t].y % PX = 0

\* C19 as stated: every coordinate getElementBoundPoints produces, for the
\* indexed shapes at move-begin and for the moving shape on a tick, is rounded
\* to whole pixels before it keys a line or enters a collision test.
C19_UniformRounding ==
    /\ \A id \in Range(snapElements) : Whole(IndexedPoints(id))
    /\ \A i \in 1..Len(snapLines) : snapLines[i].value % PX = 0
    /\ Ticked => Whole(last.targetPoints)

-----------------------------------------------------------------------------
\* the tick found the live point pt in collision with the indexed line
Collides(pt, line) ==
    \E k \in 1..Len(Results(AxisOf(line))) :
        /\ Results(AxisOf(line))[k].line = line
        /\ pt \in Range(Results(AxisOf(line))[k].targetPoints)

\* the distance from pt to the line on the screen, in ticks of a screen pixel
OnScreen(pt, line) == Abs(Coord(pt, AxisOf(line)) - line.value) * layerScale

\* C20 as stated: collision detection compares distances with snapSize
\* converted to scene units by the zoom factor: a live point collides with an
\* indexed line exactly when its distance times the zoom factor is at most
\* snapSize.
C20_ZoomScaledTolerance ==
    Ticked =>
        \A i \in 1..Len(snapLines) : \A j \in 1..Len(PrePoints) :
            Collides(PrePoints[j], snapLines[i])
                <=> OnScreen(PrePoints[j], snapLines[i]) <= Px(config.snapSize)

\* a tick at zoom factor 2 that finds a collision with a line a whole pixel
\* of the scene, two pixels of the screen, away
C20_ZoomedTick ==
    /\ Ticked
    /\ layerScale = 2
    /\ \E i \in 1..Len(snapLines) : \E j \in 1..Len(PrePoints) :
          /\ Collides(PrePoints[j], snapLines[i])
          /\ OnScreen(PrePoints[j], snapLines[i]) = Px(2)

-----------------------------------------------------------------------------
\* how many elements of a cache are visible
Visible(cache) == Cardinality({ i \in 1..Len(cache) : cache[i] })

\* how many elements of each kind the latest tick computed and drew
Produced ==
    [vertical   |-> IF last.render THEN Len(last.plan.vertical) ELSE 0,
     horizontal |-> IF last.render THEN Len(last.plan.horizontal) ELSE 0,
     points     |-> IF last.render /\ config.showLinePoints
                    THEN Len(uniquePoints(last.plan.allCollisionPoints)) ELSE 0,
     labels     |-> IF last.render /\ config.showDistanceLabels
                    THEN Len(last.plan.distanceLabels) ELSE 0,
     boxes      |-> Len(last.spacing)]

\* C21: at the end of every move tick each visible render element (guide
\* line, point marker, distance line, distance label, equal-spacing box) was
\* produced by that tick's computation: of every kind, as many elements are
\* visible as the tick drew
C21_NoStaleArtifacts ==
    Ticked =>
        /\ Visible(verticalLines) = Produced.vertical
        /\ Visible(horizontalLines) = Produced.horizontal
        /\ Visible(linePointGroups) = Produced.points
        /\ Visible(distanceLines) = Produced.labels
        /\ Visible(distanceLabels) = Produced.labels
        /\ Visible(equalSpacingBoxes) = Produced.boxes

\* the kinds executeMove hides before it computes are never stale
C21_HiddenKindsFresh ==
    Ticked =>
        /\ Visible(verticalLines) = Produced.vertical
        /\ Visible(horizontalLines) = Produced.horizontal
        /\ Visible(distanceLabels) = Produced.labels
        /\ Visible(equalSpacingBoxes) = Produced.boxes

\* a tick that leaves a point marker of an earlier tick visible
C21_StaleMarkerTick ==
    Ticked /\ Visible(linePointGroups) > Produced.points

\* a tick that leaves a distance line of an earlier tick visible
C21_StaleDistanceLineTick ==
    Ticked /\ Visible(distanceLines) > Produced.labels

-----------------------------------------------------------------------------
\* the values of the guide lines the latest tick drew on an axis
Drawn(axis) ==
    IF ~last.render THEN <<>>
    ELSE IF axis = "x"
         THEN [i \in 1..Len(last.plan.vertical) |-> last.plan.vertical[i][1]]
         ELSE [i \in 1..Len(last.plan.horizontal) |-> last.plan.horizontal[i][2]]

\* every drawn line rounds to the rounded value of a boundary line of the target
OnOwnLines(axis) ==
    \A i \in 1..Len(Drawn(axis)) :
        \E j \in 1..Len(LivePoints) :
            toFixed(Drawn(axis)[i]) = toFixed(Coord(LivePoints[j], axis))

\* C22: a tick draws at most 3 vertical and at most 3 horizontal guide lines,
\* and each drawn line has the rounded value of one of the moving shape's own
\* boundary lines of that axis
C22_AtMostThreeLines ==
    Ticked => \A axis \in Axes : Len(Drawn(axis)) <= 3 /\ OnOwnLines(axis)

\* the half of it that holds: every drawn line is on a rounded boundary value
\* of the target
C22_DrawnOnOwnLines ==
    Ticked => \A axis \in Axes : OnOwnLines(axis)

\* a tick that draws more than three guide lines on one axis
C22_FourLinesTick ==
    Ticked /\ \E axis \in Axes : Len(Drawn(axis)) > 3

\* a tick of a gesture whose index holds no selected shape draws five lines
C22_FiveLinesTick ==
    /\ Ticked
    /\ \A i \in 1..Len(snapElements) : snapElements[i] \notin Range(list)
    /\ \E axis \in Axes : Len(Drawn(axis)) >= 5

-----------------------------------------------------------------------------
\* the part of the tree the host shows, in the tree's frame: the screen is
\* ZoomLayer.width by ZoomLayer.height and shows the tree scaled by scaleX and
\* shifted by (ZoomLayer.x, ZoomLayer.y)
Viewport ==
    [x1 |-> (-ZoomLayer.x) \div scaleX,
     x2 |-> (-ZoomLayer.x + ZoomLayer.width) \div scaleX,
     y1 |-> (-ZoomLayer.y) \div scaleX,
     y2 |-> (-ZoomLayer.y + ZoomLayer.height) \div scaleX]

\* the box of a shape touches the viewport
InView(id) ==
    LET b == BoxOf(id, pos, list)
    IN  /\ b.x <= Viewport.x2 /\ b.x + b.w >= Viewport.x1
        /\ b.y <= Viewport.y2 /\ b.y + b.h >= Viewport.y1

\* the shapes the claim makes eligible, in tree order
ShouldBeIndexed ==
    SelectSeq(<<parentContainer(config)>> \o Children, LAMBDA id :
        /\ ~IsLeafer(id)
        /\ Tag(id) # "SimulateElement"
        /\ config.viewportOnly => InView(id)
        /\ id \notin Range(list)
        /\ IsSnapAttr(id)
        /\ id \notin config.filter)

\* the points of the index that a shape owns
OwnedBy(id) == SelectSeq(snapPoints, LAMBDA q : q.element = id)

\* each indexed shape contributes its 8 boundary points and nothing else does
EightEach ==
    /\ \A i \in 1..Len(snapElements) :
          LET bp == getLayoutPoints(BoxOf(snapElements[i], pos, list))
              own == OwnedBy(snapElements[i])
          IN  /\ Len(own) = 8
              /\ { own[k].type : k \in 1..8 } = Range(PointTypes)
              /\ \A k \in 1..8 :
                    /\ own[k].x \in { bp[1].x, bp[2].x, (bp[1].x + bp[2].x) \div 2 }
                    /\ own[k].y \in { bp[1].y, bp[3].y, (bp[1].y + bp[3].y) \div 2 }
    /\ \A k \in 1..Len(snapPoints) : snapPoints[k].element \in Range(snapElements)
    /\ Len(snapPoints) = 8 * Len(snapElements)

\* the latest event was a move-begin that built the index
Indexing == last.ev = "beforeMove" /\ last.built

\* C23: immediately after a move-begin builds the index, the shapes of the
\* index are exactly parentContainer and its direct children that are valid,
\* touch the viewport when viewportOnly is set, are not selected, have isSnap
\* true and pass the filter; each contributes exactly its 8 boundary points
C23_EligibleSetAtBuild ==
    Indexing => snapElements = ShouldBeIndexed /\ EightEach

\* the same for a host that shows the tree without pan
C23_EligibleSetUnpanned ==
    (Indexing /\ layerY = 0) => snapElements = ShouldBeIndexed /\ EightEach

\* a move-begin that leaves a shape the host shows out of the index
C23_VisibleShapeLeftOut ==
    /\ Indexing
    /\ \E i \in 1..Len(ShouldBeIndexed) : ShouldBeIndexed[i] \notin Range(snapElements)
    /\ EightEach

-----------------------------------------------------------------------------
\* new Snap(app): the state after a construction without a config argument
InitDefault ==
    /\ config = DEFAULT_CONFIG
    /\ isEnabled = FALSE
    /\ isSnapping = FALSE
    /\ isKeyEvent = FALSE
    /\ snapElements = <<>>
    /\ snapPoints = <<>>
    /\ snapLines = <<>>
    /\ verticalLines = <<>>
    /\ horizontalLines = <<>>
    /\ linePointGroups = <<>>
    /\ distanceLabels = <<>>
    /\ distanceLines = <<>>
    /\ equalSpacingBoxes = <<>>
    /\ listeners = 0
    /\ list \in Selections
    /\ pos = HomePos
    /\ held = {}
    /\ sky = 0
    /\ scaleX = 1
    /\ layerY = 0
    /\ last = [ev |-> "init"]

SpecDefault == InitDefault /\ [][Next]_vars

\* the spacing results of the shapes as they stand
SpacingNow == calculateEqualSpacing(Target(list), Eligible, pos, list)

-----------------------------------------------------------------------------
\* the latest call was the public destroy()
Destroyed == last.ev = "destroy"

\* C25: after a call of the public destroy() every render element is
\* destroyed and the handlers of the instance are no longer registered with
\* the host
C25_DestroyDetaches ==
    Destroyed => (CachedCount = 0 /\ sky = 0 /\ listeners = 0)

\* the half of it that holds: destroy() leaves no render element, no index
\* and no gesture
C25_DestroyCleansRender ==
    Destroyed => TornDown

\* the consequence the claim draws: the move-begin, move tick or key event
\* that follows a destroy() leaves the state of the instance as it is
C25_EventsIgnoredAfterDestroy ==
    [][(Destroyed /\ last'.ev \in {"beforeMove", "move", "key"}) =>
          /\ index' = index
          /\ isSnapping' = isSnapping
          /\ isKeyEvent' = isKeyEvent
          /\ sky' = sky]_vars

-----------------------------------------------------------------------------
(* The clustering loop of findEqualSpacing on its own: the gaps of a sorted *)
(* group are drawn from a small set and clustered.                          *)

\* the longest list of gaps
MaxGaps == 4

\* the rounded positive gaps between neighbours, in pixels
GapValues == {9, 10, 11, 12}

\* the spacings array of the gaps s of a sorted group
AsSpacings(s) ==
    [i \in 1..Len(s) |-> [start |-> i, end |-> i + 1, spacing |-> s[i]]]

InitGaps ==
    /\ config = Merge(DEFAULT_CONFIG, [snapSize |-> 1])
    /\ isEnabled = FALSE
    /\ isSnapping = FALSE
    /\ isKeyEvent = FALSE
    /\ snapElements = <<>>
    /\ snapPoints = <<>>
    /\ snapLines = <<>>
    /\ verticalLines = <<>>
    /\ horizontalLines = <<>>
    /\ linePointGroups = <<>>
    /\ distanceLabels = <<>>
    /\ distanceLines = <<>>
    /\ equalSpacingBoxes = <<>>
    /\ listeners = 0
    /\ list = <<"U">>
    /\ pos = HomePos
    /\ held = {}
    /\ sky = 0
    /\ scaleX = 1
    /\ layerY = 0
    /\ \E s \in Seqs(GapValues, MaxGaps) :
          last = [ev |-> "gaps", spacings |-> AsSpacings(s)]

\* the loop over spacings that fills spacingGroups
ClusterGaps ==
    /\ last.ev = "gaps"
    /\ last' = [ev |-> "clusters", spacings |-> last.spacings,
                groups |-> SpacingGroups(last.spacings, <<>>)]
    /\ UNCHANGED <<scaleX, layerY, config, isEnabled, isSnapping, isKeyEvent, index,
                   caches, listeners, list, pos, held, sky>>

NextGaps == ClusterGaps

SpecGaps == InitGaps /\ [][NextGaps]_vars

\* the gaps have been clustered
Clustered == last.ev = "clusters"

\* the gap a position of a cluster stands for
GapOf(q) == last.spacings[q.start].spacing

\* the positions of all clusters, cluster after cluster
AllPositions ==
    Flat([k \in 1..Len(last.groups) |-> last.groups[k].positions])

\* C26: the gaps are processed in sorted order; each gap joins the
\* earliest-created cluster whose representative differs from it by at most the
\* tolerance and otherwise founds a cluster whose representative is its own
\* value, which never changes afterwards
C26_FirstFitClustering ==
    Clustered =>
        /\ Len(AllPositions) = Len(last.spacings)
        /\ \A i \in 1..Len(last.spacings) :
              \E j \in 1..Len(AllPositions) : AllPositions[j].start = i
        /\ \A k \in 1..Len(last.groups) :
              LET g == last.groups[k]
              IN  /\ Len(g.positions) > 0
                  /\ g.spacing = GapOf(g.positions[1])
                  /\ \A j \in 1..Len(g.positions) :
                        /\ Abs(GapOf(g.positions[j]) - g.spacing) <= tolerance
                        /\ j > 1 => g.positions[j - 1].start < g.positions[j].start
                        /\ \A e \in 1..(k - 1) :
                              Abs(GapOf(g.positions[j]) - last.groups[e].spacing)
                                  > tolerance
                  /\ k > 1 => last.groups[k - 1].positions[1].start
                                  < g.positions[1].start

\* a cluster two of whose gaps differ by more than the tolerance, and a gap in
\* reach of two clusters that joined the earlier one
C26_Witness ==
    /\ Clustered
    /\ \E k \in 1..Len(last.groups) :
          \E i, j \in 1..Len(last.groups[k].positions) :
              Abs(GapOf(last.groups[k].positions[i])
                    - GapOf(last.groups[k].positions[j])) > tolerance
    /\ \E k \in 1..Len(last.groups) :
          \E j \in 1..Len(last.groups[k].positions) :
              \E e \in (k + 1)..Len(last.groups) :
                  /\ last.groups[e].positions[1].start
                        < last.groups[k].positions[j].start
                  /\ Abs(GapOf(last.groups[k].positions[j])
                            - last.groups[e].spacing) <= tolerance

-----------------------------------------------------------------------------
\* the index holds no point of a selected shape
SelectionFree ==
    \A k \in 1..Len(snapPoints) : snapPoints[k].element \notin Range(list)

\* C27: at every move tick, whatever events came before it, the index holds
\* no SnapPoint whose owning shape is in the current selection
C27_NeverSnapsToItself ==
    Ticked => SelectionFree

\* the half of it that holds: the index a move-begin builds holds no point of
\* a shape selected at that moment
C27_SelectionFreeAtBuild ==
    Indexing => SelectionFree

\* a tick that detects a collision of the selection with a line made only of
\* points of selected shapes
C27_SelfCollisionTick ==
    /\ Ticked
    /\ \E axis \in Axes :
          \E i \in 1..Len(Results(axis)) :
              \A k \in 1..Len(Results(axis)[i].line.points) :
                  Results(axis)[i].line.points[k].element \in Range(list)

-----------------------------------------------------------------------------
\* detection and selection run again on the shapes as the tick left them,
\* against the index as it is
Again(axis) ==
    selectBestLineCollision(
        calculateSnap(getElementBoundPoints(BoxOf(Target(list), pos, list)),
                      snapLines, config.snapSize)[axis])

\* C28: after a tick has applied the offset of the winner of an axis, running
\* detection and selection again with the shape where the tick left it gives
\* a winner on that axis with distance 0 and offset 0, so that applying it
\* leaves every shape where it is
C28_SnapIdempotent ==
    (Ticked /\ ~last.keyEvent) =>
        /\ \A axis \in Axes :
              last.best[axis] # Null =>
                  /\ Again(axis) # Null
                  /\ Again(axis).distance = 0
                  /\ Again(axis).offset = 0
        /\ (last.best["x"] # Null /\ last.best["y"] # Null) =>
              applySnapOffset(pos, list, Again("x"), Again("y"), FALSE) = pos

C28_Witness ==
    /\ Ticked
    /\ ~last.keyEvent
    /\ Applied("x") # 0
    /\ Applied("y") # 0
    /\ pos # last.pre
    /\ Again("x").distance = 0
    /\ Again("y").distance = 0

-----------------------------------------------------------------------------
-----------------------------------------------------------------------------
\* the box of a result has a positive width and a positive height
WellFormed(r) == r.box.width > 0 /\ r.box.height > 0

\* C30: every EqualSpacingResult of a tick has a box of positive width and
\* positive height: the two shapes bounding a reported gap overlap on the
\* other axis, also when neither is the moving shape
C30_WellFormedBoxes ==
    Ticked => \A i \in 1..Len(last.spacing) : WellFormed(last.spacing[i])

\* the half of it that holds: the box of a gap the moving shape bounds is
\* well formed, and so is the extent of every box along the axis of its gap
C30_TargetBoxesWellFormed ==
    Ticked =>
        \A i \in 1..Len(last.spacing) :
            LET r == last.spacing[i]
            IN  /\ Target(list) \in {r.prevElement, r.nextElement} => WellFormed(r)
                /\ IF r.axis = "x" THEN r.box.width > 0 ELSE r.box.height > 0

\* a tick that reports a gap between two shapes that do not overlap
C30_DisjointPairTick ==
    /\ Ticked
    /\ \E i \in 1..Len(last.spacing) :
          /\ ~WellFormed(last.spacing[i])
          /\ Target(list) \notin {last.spacing[i].prevElement,
                                  last.spacing[i].nextElement}

====
